---- MODULE Spec2Model ----
(***************************************************************************)
(* Model of the upload pipeline of pca_frontend:                           *)
(*   - uploadFileWithProgress (src/src/lib/api.ts), the hash -> upload ->  *)
(*     poll pipeline reporting progress events to an observer;             *)
(*   - handleUpload / pollUploadStatus (src/src/app/rag-summary/page.tsx), *)
(*     the page-level variant working on React state.                      *)
(* The server, the file system and the observer are the environment: their *)
(* answers are drawn from small sets.                                      *)
(***************************************************************************)
EXTENDS Integers, Sequences, FiniteSets, TLC

\* ------------------------------------------------------------------ values

\* JavaScript's undefined (a missing field of a JSON body); JSON scalars other
\* than the fractional progress are kept as their text ("42", "true")
Undef == "undefined"

\* const maxAttempts = 60 in uploadFileWithProgress
maxAttempts == 60

\* const maxAttempts = 120 in pollUploadStatus
pageMaxAttempts == 120

\* const LARGE_FILE_THRESHOLD = 10 * 1024 * 1024
LARGE_FILE_THRESHOLD == 10485760

\* the closed enumeration UploadProgress.phase
Phases == {"hashing", "uploading", "processing", "complete", "error"}

\* position of a phase in hashing -> uploading -> processing -> complete
PhaseRank(p) ==
    CASE p = "hashing"    -> 1
      [] p = "uploading"  -> 2
      [] p = "processing" -> 3
      [] p = "complete"   -> 4
      [] p = "error"      -> 5

\* ------------------------------------------------------- environment sets

\* files handed to the pipeline: size in bytes, and whether reading succeeds
FileSizes == {LARGE_FILE_THRESHOLD, LARGE_FILE_THRESHOLD + 1}
Files == [size : FileSizes, readable : BOOLEAN]

\* the optional sheetName argument
SheetNames == {Undef, "Sheet1"}

\* the observer argument: absent (onProgress undefined) or present; an
\* observer may answer any event it is handed with an exception
Observers == {"absent", "present"}

\* what an observer throws: an Error, or a value that is no Error
ObserverThrows == {[isError |-> TRUE, message |-> "observer failed"],
                   [isError |-> FALSE, message |-> Undef]}

\* values of the localStorage entries 'auth_token' and 'token' (null = absent)
Null == "null"
TokenValues == {Null, "tok"}

\* JSON bodies of a 2xx answer of POST /upload/stream
SubmitBody(status, job_id, success, message, file_hash) ==
    [status |-> status, job_id |-> job_id, success |-> success,
     imported_count |-> IF success = "true" THEN "7" ELSE Undef,
     message |-> message, file_hash |-> file_hash,
     original_upload |-> IF status = "duplicate" THEN "o1" ELSE Undef]

SubmitBodies ==
    {SubmitBody("duplicate", Undef, Undef, m, h) : m \in {"m1", Undef}, h \in {"fh", Undef}}
    \cup {SubmitBody("accepted", "j1", Undef, "m1", "fh"),
          SubmitBody("accepted", Undef, Undef, "m1", Undef),
          SubmitBody(Undef, "j1", Undef, Undef, Undef),
          SubmitBody(Undef, Undef, "true", "m1", Undef),
          SubmitBody("accepted", "j1", "true", "m1", Undef),
          SubmitBody("duplicate", Undef, "true", "m1", "fh"),
          SubmitBody(Undef, Undef, Undef, Undef, Undef)}

\* bodies of a non-2xx answer: not JSON, or JSON with optional detail/message
NotJson == [json |-> FALSE]
ErrorBodies == {NotJson} \cup
    [json : {TRUE}, detail : {"d1", Undef}, message : {"em", Undef}]

\* server-reported fractional progress 0.0 .. 1.0, in thousandths
ProgressValues == {0, 455, 1000}

\* JSON bodies of a 2xx answer of GET /upload/status/{jobId}; the fields a
\* branch of the code never reads are left undefined
StatusBody(status, progress, message, error, row_count, payload) ==
    [status |-> status, progress |-> progress, message |-> message,
     error |-> error, row_count |-> row_count,
     file_hash |-> IF status = "completed" THEN "fh" ELSE Undef,
     summary |-> IF payload THEN "s1" ELSE Undef,
     schema |-> IF payload THEN "sc1" ELSE Undef,
     preview |-> IF payload THEN "pv1" ELSE Undef]

RunningBodies ==
    {StatusBody("running", p, "m1", Undef, Undef, FALSE) : p \in ProgressValues}
    \cup {StatusBody(Undef, 0, "m2", Undef, Undef, FALSE)}

CompletedBodies ==
    {StatusBody("completed", 1000, "m1", Undef, "42", TRUE),
     StatusBody("completed", 1000, "m1", Undef, "0", TRUE),
     StatusBody("completed", 455, Undef, Undef, Undef, FALSE)}

FailedBodies ==
    {StatusBody("failed", 455, "m1", e, Undef, FALSE) : e \in {"e1", Undef}}

StatusBodies == RunningBodies \cup CompletedBodies \cup FailedBodies

\* answers of fetch: the promise rejects (network failure), or an HTTP
\* response; the body of a 2xx response may fail to parse as JSON
NetFail == [kind |-> "netfail"]
HttpErrors == [kind : {"http"}, ok : {FALSE}, code : {401, 500},
               statusText : {"", "Refused"}, body : ErrorBodies]
SubmitResponses == {NetFail} \cup HttpErrors \cup
    [kind : {"http"}, ok : {TRUE}, code : {200}, statusText : {"OK"},
     body : {NotJson} \cup SubmitBodies]
StatusResponses == {NetFail} \cup
    [kind : {"http"}, ok : {FALSE}, code : {500},
     statusText : {""}, body : {NotJson}] \cup
    [kind : {"http"}, ok : {TRUE}, code : {200}, statusText : {"OK"},
     body : {NotJson} \cup StatusBodies]

\* the content of the files that are hashed: short byte sequences.  The code
\* reads file.size in the threshold test only and never compares it with the
\* number of bytes it has read, so the size is drawn on its own.
MaxFileLen == 3
MaxChunks == 3
Bytes == {0, 171}
ByteSeqs == UNION {[1..n -> Bytes] : n \in 0..MaxFileLen}
HashFiles == [size : FileSizes, bytes : ByteSeqs, readable : BOOLEAN]
HashFunctions == {"computeFileHash", "computeFileHashStreaming", "checkDuplicate"}

\* ----------------------------------------------------------- pure helpers

\* a || b of JavaScript on values that are undefined or truthy
OrElse(a, b) == IF a = Undef THEN b ELSE a

\* Math.round(progress * 100) for a fraction given in thousandths
RoundPercent(p) == (p + 5) \div 10

\* the exception of a rejected fetch / failed read / failed JSON parse
Err(msg) == [isError |-> TRUE, message |-> msg]

\* error instanceof Error ? error.message : 'Unknown error'
CatchMessage(e) == IF e.isError THEN e.message ELSE "Unknown error"

NoThrow == [isError |-> FALSE, message |-> "none"]
NoResponse == [kind |-> "none"]

\* the progress events of uploadFileWithProgress
Ev(phase, progress, message, jobId, error) ==
    [phase |-> phase, progress |-> progress, message |-> message,
     jobId |-> jobId, error |-> error]

NoEvent == Ev("none", 0, Undef, Undef, Undef)

\* StreamUploadResult
Result(status, jobId, fileHash, message, originalUpload) ==
    [status |-> status, jobId |-> jobId, fileHash |-> fileHash,
     message |-> message, originalUpload |-> originalUpload]

NoResult == Result("none", Undef, Undef, Undef, Undef)

\* what the observer has been handed so far: the phases in order (a run of
\* equal phases kept once), the number of events per phase, the last event,
\* the last processing event, and whether the observer has answered an event
\* with an exception
EmptyLog == [phases |-> <<>>, count |-> [p \in Phases |-> 0], last |-> NoEvent,
             processing |-> NoEvent, threw |-> FALSE]

Deliver(log, ev) ==
    [phases |-> IF log.phases # <<>> /\ log.phases[Len(log.phases)] = ev.phase
                THEN log.phases ELSE Append(log.phases, ev.phase),
     count |-> [log.count EXCEPT ![ev.phase] = @ + 1],
     last |-> ev,
     processing |-> IF ev.phase = "processing" THEN ev ELSE log.processing,
     threw |-> log.threw]

Threw(log) == [log EXCEPT !.threw = TRUE]

RECURSIVE DeliverAll(_, _)
DeliverAll(log, evs) ==
    IF evs = <<>> THEN log
    ELSE DeliverAll(Deliver(log, Head(evs)), Tail(evs))

\* ------------------------------------------------------------------ state

VARIABLES
    storage,        \* localStorage: the entries 'auth_token' and 'token'
    unauthorized,   \* 'unauthorized' events dispatched on window during the upload
    \* one invocation of uploadFileWithProgress
    upc,            \* where the invocation stands
    ufile,          \* argument file
    usheet,         \* argument sheetName
    observer,       \* argument onProgress
    ulog,           \* the events handed to onProgress so far
    uresult,        \* the value the returned promise resolved with
    uescaped,       \* the exception the returned promise rejected with
    fileHash,       \* let fileHash
    hashStrategy,   \* which hashing function was called
    submitReq,      \* the request sent to POST /upload/stream
    submits,        \* number of POST /upload/stream requests issued
    subResp,        \* the answer to the submission
    jobId,          \* const jobId
    attempts,       \* let attempts
    statusFetches,  \* number of GET /upload/status requests issued
    lastFetchJob,   \* the job id in the URL of the last status fetch
    statusResp      \* the answer to the last status fetch

    \* the upload page (UploadPage of rag-summary/page.tsx)
VARIABLES
    ppc,            \* where handleUpload / pollUploadStatus stands
    file,           \* useState: the selected file
    uploading,      \* useState: the uploading flag
    status,         \* useState: the status banner ({type, message} or null)
    result,         \* useState: the upload result (or null)
    psheet,         \* argument sheetName of handleUpload
    pageReq,        \* the request handleUpload sent to POST /upload/stream
    pSubmits,       \* POST /upload/stream requests issued by this handleUpload
    pSubResp,       \* the answer to the submission
    pJobId,         \* argument jobId of pollUploadStatus
    pAttempts,      \* let attempts of pollUploadStatus
    pFetches,       \* status fetches issued by this handleUpload
    pStatusResp,    \* the answer to the last status fetch
    pollerSet,      \* the last status set by pollUploadStatus
    pErrorSets,     \* number of error statuses set during this handleUpload
    pEnd,           \* how this handleUpload ended
    uploadFile,     \* the file this handleUpload put into its form data
    savedResult,    \* localStorage: the entry 'lastUploadResult'
    savedStatus     \* localStorage: the entry 'lastUploadStatus'

    \* one call of api.uploadCampaigns
VARIABLES
    cpc,            \* where the call stands
    campReq,        \* the request sent to POST /campaigns/upload
    campOutcome     \* what the call returned or threw

cvars == <<cpc, campReq, campOutcome>>

    \* one call of computeFileHash, computeFileHashStreaming or checkDuplicate
VARIABLES
    hpc,            \* where the call stands
    hcall,          \* the exported function that was called
    hfile,          \* argument file
    hstream,        \* the chunks file.stream() is going to deliver
    uploaded,       \* the fingerprints the server holds at the time of the call
    hstrategy,      \* the hash function that runs
    chunks,         \* computeFileHashStreaming: const chunks
    held,           \* the most bytes of the file the call has held at once
    digestInput,    \* the buffer handed to crypto.subtle.digest
    hreturn         \* what the call returned

hvars == <<hpc, hcall, hfile, hstream, uploaded, hstrategy, chunks, held,
           digestInput, hreturn>>

    \* two invocations of uploadFileWithProgress in flight: the pipeline
    \* variables above are those of the invocation that runs, and
VARIABLES
    current,        \* which of the two invocations runs (1 or 2)
    other           \* the locals of the invocation that waits at its await

bvars == <<current, other>>

    \* one call of the request helper through an entry of `api`
VARIABLES
    rpc,            \* where the call stands
    reqArgs,        \* the entry that was called and its arguments
    reqSent,        \* the config handed to fetch
    reqResp,        \* the answer of fetch
    reqOutcome      \* what the call returned or threw

rvars == <<rpc, reqArgs, reqSent, reqResp, reqOutcome>>

    \* ChatInterface
VARIABLES
    messages,       \* useState: the conversation
    input,          \* useState: the text of the input field
    isLoading,      \* useState: the loading flag
    shown,          \* input and isLoading as of the last render (what the
                    \* handlers of that render see)
    chatPending     \* chat requests in flight

kvars == <<messages, input, isLoading, shown, chatPending>>

\* the state of the programs modelled after the pipeline, the page, the
\* campaigns upload, the Hasher and the pair
ovars == <<rvars, kvars>>

\* the state of the programs other than the pipeline and the page
xvars == <<cvars, hvars, bvars, ovars>>

uvars == <<upc, ufile, usheet, observer, ulog, uresult, uescaped, fileHash,
           hashStrategy, submitReq, submits, subResp, jobId, attempts,
           statusFetches, lastFetchJob, statusResp>>

svars == <<savedResult, savedStatus>>
pvars == <<ppc, file, uploading, status, result, psheet, pageReq, pSubmits,
           pSubResp, pJobId, pAttempts, pFetches, pStatusResp, pollerSet,
           pErrorSets, pEnd, uploadFile, svars>>

vars == <<storage, unauthorized, uvars, pvars, xvars>>

\* the page's status banner and result
Status(type, message) == [type |-> type, message |-> message]
NullStatus == Status(Null, Null)

PageResult(success, imported_count, message, summary, schema, preview) ==
    [success |-> success, imported_count |-> imported_count, message |-> message,
     summary |-> summary, schema |-> schema, preview |-> preview]
NullResult == PageResult(Null, Null, Null, Null, Null, Null)

\* an entry of localStorage that holds JSON.stringify(v), and the two
\* entries of the page when they are absent
Stored(v) == [present |-> TRUE, json |-> v]
NoSavedResult == [present |-> FALSE, json |-> NullResult]
NoSavedStatus == [present |-> FALSE, json |-> NullStatus]

\* files the user can select on the page
PageFiles == {"campaigns.csv"}

NoFile == [size |-> 0, readable |-> FALSE]
NoRequest == [auth |-> Undef, csrf |-> FALSE, sheet_name |-> Undef]
NoOutcome == [kind |-> "none", value |-> Undef]
\* the locals of an invocation that has not been called yet
NotCalled ==
    [upc |-> "idle", ufile |-> NoFile, usheet |-> Undef, observer |-> "absent",
     ulog |-> EmptyLog, uresult |-> NoResult, uescaped |-> NoThrow,
     fileHash |-> Undef, hashStrategy |-> "none", submitReq |-> NoRequest,
     submits |-> 0, subResp |-> NoResponse, jobId |-> Undef, attempts |-> 0,
     statusFetches |-> 0, lastFetchJob |-> Undef, statusResp |-> NoResponse]

\* JavaScript values handed to the request helper as a body
JsUndefined == [type |-> "undefined", v |-> ""]
NoArgs == [entry |-> "none", method |-> Undef, body |-> JsUndefined, options |-> <<>>]
NoReturn == [kind |-> "none", status |-> 0, message |-> Undef]

NoHashFile == [size |-> 0, bytes |-> <<>>, readable |-> TRUE]

\* a message of the conversation, and the one it starts with
Message(role, content) == [role |-> role, content |-> content]
Welcome == Message("assistant", "Hello! I am your Campaign Analyst AI.")

Init ==
    /\ storage \in [auth_token : TokenValues, token : TokenValues]
    /\ unauthorized = 0
    /\ upc = "idle"
    /\ ufile = NoFile
    /\ usheet = Undef
    /\ observer = "absent"
    /\ ulog = EmptyLog
    /\ uresult = NoResult
    /\ uescaped = NoThrow
    /\ fileHash = Undef
    /\ hashStrategy = "none"
    /\ submitReq = NoRequest
    /\ submits = 0
    /\ subResp = NoResponse
    /\ jobId = Undef
    /\ attempts = 0
    /\ statusFetches = 0
    /\ lastFetchJob = Undef
    /\ statusResp = NoResponse
    /\ ppc = "idle"
    /\ file = Null
    /\ uploading = FALSE
    /\ status = NullStatus
    /\ result = NullResult
    /\ psheet = Undef
    /\ pageReq = NoRequest
    /\ pSubmits = 0
    /\ pSubResp = NoResponse
    /\ pJobId = Undef
    /\ pAttempts = 0
    /\ pFetches = 0
    /\ pStatusResp = NoResponse
    /\ pollerSet = NullStatus
    /\ pErrorSets = 0
    /\ pEnd = "none"
    /\ uploadFile = Null
    /\ savedResult = NoSavedResult
    /\ savedStatus = NoSavedStatus
    /\ cpc = "idle"
    /\ campReq = NoRequest
    /\ campOutcome = NoOutcome
    /\ hpc = "idle"
    /\ hcall = Undef
    /\ hfile = NoHashFile
    /\ hstream = <<>>
    /\ uploaded = {}
    /\ hstrategy = Undef
    /\ chunks = <<>>
    /\ held = 0
    /\ digestInput = <<>>
    /\ hreturn = NoOutcome
    /\ current = 1
    /\ other = NotCalled
    /\ rpc = "idle"
    /\ reqArgs = NoArgs
    /\ reqSent = <<>>
    /\ reqResp = NoResponse
    /\ reqOutcome = NoReturn
    /\ messages = <<Welcome>>
    /\ input = ""
    /\ isLoading = FALSE
    /\ shown = [input |-> "", isLoading |-> FALSE]
    /\ chatPending = 0

\* ------------------------------------------ uploadFileWithProgress: steps

\* A step of the invocation runs from one await to the next.  It hands the
\* events evs to the observer in order and then ends in `tail`: it goes on to
\* the next await (kind "go"), returns a result (kind "return") or throws
\* (kind "throw").  A step's outcome is what it leaves behind.
Go(pc) == [kind |-> "go", pc |-> pc, result |-> NoResult, e |-> NoThrow]
Return(r) == [kind |-> "return", pc |-> "done", result |-> r, e |-> NoThrow]
Throw(e) == [kind |-> "throw", pc |-> "catch", result |-> NoResult, e |-> e]

\* ran: the step reached its tail (no observer exception cut it short)
Outcome(log, pc, res, escaped, ran) ==
    [log |-> log, pc |-> pc, result |-> res, escaped |-> escaped, ran |-> ran]

\* the catch block: the error event, then the error result; an exception
\* thrown by the observer inside the catch block leaves the function
CaughtSilent(obs, log, e, ran) ==
    {Outcome(log, "done", Result("error", Undef, Undef, CatchMessage(e), Undef),
             NoThrow, ran)}

Caught(obs, log, e, ran) ==
    LET message == CatchMessage(e)
        ev == Ev("error", 0, "Upload failed: " \o message, Undef, message)
        res == Result("error", Undef, Undef, message, Undef)
    IN  IF obs = "absent"
        THEN {Outcome(log, "done", res, NoThrow, ran)}
        ELSE {Outcome(Deliver(log, ev), "done", res, NoThrow, ran)}
             \cup (IF obs = "present"
                   THEN {Outcome(Threw(Deliver(log, ev)), "thrown", NoResult, t, ran) :
                            t \in ObserverThrows}
                   ELSE {})

Finish(obs, log, tail) ==
    IF tail.kind = "throw"
    THEN Caught(obs, log, tail.e, TRUE)
    ELSE {Outcome(log, tail.pc, tail.result, NoThrow, TRUE)}

\* the outcomes of a step inside the try block: onProgress?.(ev) for each
\* event, any of which a throwing observer may answer with an exception
Step(obs, log, evs, tail) ==
    IF obs = "absent"
    THEN Finish(obs, log, tail)
    ELSE Finish(obs, DeliverAll(log, evs), tail)
         \cup (IF obs = "present"
               THEN UNION {Caught(obs, Threw(DeliverAll(log, SubSeq(evs, 1, k))), t, FALSE) :
                              k \in 1..Len(evs), t \in ObserverThrows}
               ELSE {})

\* the hexadecimal SHA-256 digest of the file (its first characters are shown
\* to the observer)
Sha256Hex(f) == "9f86d081884c7d65"
HashPrefix == "9f86d081"

\* errorData.detail || `Upload failed: ${response.status}` with
\* errorData = await response.json().catch(() => ({ detail: response.statusText }))
SubmitErrorMessageGeneric(r) == "Upload failed: " \o ToString(r.code)

SubmitErrorMessage(r) ==
    LET detail == IF r.body = NotJson
                  THEN (IF r.statusText = "" THEN Undef ELSE r.statusText)
                  ELSE r.body.detail
    IN  OrElse(detail, "Upload failed: " \o ToString(r.code))

\* headers and form fields of the submission of uploadFileWithProgress
StreamRequest(token, sheet) ==
    [auth |-> IF token # Null THEN "Bearer " \o token ELSE Undef,
     csrf |-> FALSE,
     sheet_name |-> sheet]

\* the call up to `await computeFileHash...(file)`
uploadFileWithProgress(f, sheet, obs) ==
    /\ upc = "idle"
    /\ ppc = "idle"
    /\ file = Null
    /\ cpc = "idle"
    /\ hpc = "idle"
    /\ ufile' = f
    /\ usheet' = sheet
    /\ observer' = obs
    /\ \E o \in Step(obs, ulog,
                     <<Ev("hashing", 0, "Computing file fingerprint...", Undef, Undef)>>,
                     Go("hashing")) :
          /\ ulog' = o.log
          /\ upc' = o.pc
          /\ uresult' = o.result
          /\ uescaped' = o.escaped
          /\ hashStrategy' = IF ~o.ran THEN hashStrategy
                             ELSE IF f.size > LARGE_FILE_THRESHOLD
                                  THEN "streaming" ELSE "memory"
    /\ UNCHANGED <<storage, unauthorized, fileHash, submitReq, submits, subResp,
                   jobId, attempts, statusFetches, lastFetchJob, statusResp,
                   pvars, xvars>>

\* reading the file failed: the await of the hash function throws
HashRejectedIgnored == Go("awaitSubmit")

HashRejected == Throw(Err("The file could not be read"))

\* the hash arrives (or reading the file failed); up to `await fetch(.../upload/stream)`
UHashDone ==
    /\ upc = "hashing"
    /\ \E o \in (IF ufile.readable
                 THEN Step(observer, ulog,
                           <<Ev("hashing", 100, "Hash computed: " \o HashPrefix \o "...", Undef, Undef),
                             Ev("uploading", 0, "Uploading file...", Undef, Undef)>>,
                           Go("awaitSubmit"))
                 ELSE Finish(observer, ulog, HashRejected)) :
          /\ ulog' = o.log
          /\ upc' = o.pc
          /\ uresult' = o.result
          /\ uescaped' = o.escaped
          /\ fileHash' = IF ufile.readable THEN Sha256Hex(ufile) ELSE fileHash
          /\ IF o.ran /\ o.pc = "awaitSubmit"
             THEN /\ submitReq' = StreamRequest(storage.auth_token, usheet)
                  /\ submits' = submits + 1
             ELSE UNCHANGED <<submitReq, submits>>
    /\ UNCHANGED <<storage, unauthorized, ufile, usheet, observer, hashStrategy,
                   subResp, jobId, attempts, statusFetches, lastFetchJob, statusResp,
                   pvars, xvars>>

\* what follows the answer r to the submission, up to the first 1 s sleep
AfterSubmitNoShortCircuit(r) ==
    IF r.kind = "netfail" THEN [evs |-> <<>>, tail |-> Throw(Err("Failed to fetch"))]
    ELSE IF ~r.ok THEN [evs |-> <<>>, tail |-> Throw(Err(SubmitErrorMessage(r)))]
    ELSE IF r.body = NotJson THEN [evs |-> <<>>, tail |-> Throw(Err("Unexpected token in JSON"))]
    ELSE [evs |-> <<Ev("processing", 50, "Processing file on server...", r.body.job_id, Undef)>>,
          tail |-> Go("sleep")]

AfterSubmit(r) ==
    IF r.kind = "netfail" THEN [evs |-> <<>>, tail |-> Throw(Err("Failed to fetch"))]
    ELSE IF ~r.ok THEN [evs |-> <<>>, tail |-> Throw(Err(SubmitErrorMessage(r)))]
    ELSE IF r.body = NotJson THEN [evs |-> <<>>, tail |-> Throw(Err("Unexpected token in JSON"))]
    ELSE IF r.body.status = "duplicate"
    THEN [evs |-> <<Ev("complete", 100, "File already uploaded (duplicate detected)", Undef, Undef)>>,
          tail |-> Return(Result("duplicate", Undef, r.body.file_hash, r.body.message,
                                 r.body.original_upload))]
    ELSE [evs |-> <<Ev("processing", 50, "Processing file on server...", r.body.job_id, Undef)>>,
          tail |-> Go("sleep")]

USubmitRecv(r) ==
    /\ upc = "awaitSubmit"
    /\ subResp' = r
    /\ \E o \in Step(observer, ulog, AfterSubmit(r).evs, AfterSubmit(r).tail) :
          /\ ulog' = o.log
          /\ upc' = o.pc
          /\ uresult' = o.result
          /\ uescaped' = o.escaped
          /\ IF o.ran /\ o.pc = "sleep"
             THEN jobId' = r.body.job_id /\ attempts' = 0
             ELSE UNCHANGED <<jobId, attempts>>
    /\ UNCHANGED <<storage, unauthorized, ufile, usheet, observer, fileHash,
                   hashStrategy, submitReq, submits, statusFetches, lastFetchJob,
                   statusResp,
                   pvars, xvars>>

\* the 1 s timer fires: fetch(`${apiUrl}/upload/status/${jobId}`)
UTimer ==
    /\ upc = "sleep"
    /\ upc' = "awaitStatus"
    /\ statusFetches' = statusFetches + 1
    /\ lastFetchJob' = jobId
    /\ UNCHANGED <<storage, unauthorized, ufile, usheet, observer, ulog, uresult,
                   uescaped, fileHash, hashStrategy, submitReq, submits, subResp,
                   jobId, attempts, statusResp,
                   pvars, xvars>>

\* while (attempts < maxAttempts)
LoopContinuesOnceMore(a) == a <= maxAttempts

LoopContinues(a) == a < maxAttempts

\* the processing event of a successful poll
ProcessingEventFloored(job) ==
    Ev("processing", job.progress \div 10, job.message, jobId, Undef)

ProcessingEvent(job) ==
    Ev("processing", RoundPercent(job.progress), job.message, jobId, Undef)

\* a status request that failed: fetch rejected, `if (!statusResponse.ok)`,
\* or a body that is no JSON
StatusRequestFailedRetried(r) ==
    [evs |-> <<>>, tail |-> Go("sleep")]

StatusRequestFailed(r) ==
    IF r.kind = "netfail" THEN [evs |-> <<>>, tail |-> Throw(Err("Failed to fetch"))]
    ELSE IF ~r.ok THEN [evs |-> <<>>, tail |-> Throw(Err("Failed to check job status"))]
    ELSE [evs |-> <<>>, tail |-> Throw(Err("Unexpected token in JSON"))]

\* if (status.status === 'completed')
OnCompletedSwapped(job) ==
    [evs |-> <<Ev("complete", 100,
                  "Successfully imported " \o job.row_count \o " rows", jobId, Undef),
               ProcessingEvent(job)>>,
     tail |-> Return(Result("accepted", jobId, job.file_hash, job.message, Undef))]

OnCompleted(job) ==
    [evs |-> <<ProcessingEvent(job),
               Ev("complete", 100,
                  "Successfully imported " \o job.row_count \o " rows", jobId, Undef)>>,
     tail |-> Return(Result("accepted", jobId, job.file_hash, job.message, Undef))]

\* status.status === 'failed'
JobFailedOrUnknown(job) == job.status \notin {"running", "completed"}

JobFailed(job) == job.status = "failed"

\* if (status.status === 'failed')
OnFailedGeneric(job) ==
    [evs |-> <<ProcessingEvent(job)>>, tail |-> Throw(Err("Processing failed"))]

OnFailed(job) ==
    [evs |-> <<ProcessingEvent(job)>>,
     tail |-> Throw(Err(OrElse(job.error, "Processing failed")))]

\* what follows the answer r to a status fetch: the rest of the loop body,
\* attempts++ and the loop condition
AfterStatus(r) ==
    IF r.kind = "netfail" \/ ~r.ok \/ r.body = NotJson THEN StatusRequestFailed(r)
    ELSE LET job == r.body
         IN  IF job.status = "completed" THEN OnCompleted(job)
             ELSE IF JobFailed(job) THEN OnFailed(job)
             ELSE IF LoopContinues(attempts + 1)
             THEN [evs |-> <<ProcessingEvent(job)>>, tail |-> Go("sleep")]
             ELSE [evs |-> <<ProcessingEvent(job)>>, tail |-> Throw(Err("Upload timed out"))]

UStatusRecv(r) ==
    /\ upc = "awaitStatus"
    /\ statusResp' = r
    /\ \E o \in Step(observer, ulog, AfterStatus(r).evs, AfterStatus(r).tail) :
          /\ ulog' = o.log
          /\ upc' = o.pc
          /\ uresult' = o.result
          /\ uescaped' = o.escaped
          /\ attempts' = IF o.ran /\ r.kind = "http" /\ r.ok /\ r.body # NotJson
                            /\ r.body.status \notin {"completed", "failed"}
                         THEN attempts + 1 ELSE attempts
    /\ UNCHANGED <<storage, unauthorized, ufile, usheet, observer, fileHash,
                   hashStrategy, submitReq, submits, subResp, jobId,
                   statusFetches, lastFetchJob,
                   pvars, xvars>>

\* ------------------------------------------------- the upload page: steps

\* new Error(m).message: the empty string when m is undefined
ErrorMessage(m) == IF m = Undef THEN "" ELSE m

\* a || b where a is a string: the empty string is falsy too
OrElseText(a, b) == IF a = Undef \/ a = "" THEN b ELSE a

\* headers and form fields of the submission of handleUpload
PageRequest(token, sheet) ==
    [auth |-> IF token # Null THEN "Bearer " \o token ELSE Undef,
     csrf |-> TRUE,
     sheet_name |-> sheet]

\* handleFileChange for a file that is no spreadsheet
handleFileChange(f) ==
    /\ upc = "idle"
    /\ cpc = "idle"
    /\ file' = f
    /\ status' = NullStatus
    /\ result' = NullResult
    /\ UNCHANGED <<storage, unauthorized, uvars, xvars, ppc, uploading, psheet, pageReq,
                   pSubmits, pSubResp, pJobId, pAttempts, pFetches, pStatusResp,
                   pollerSet, pErrorSets, pEnd, uploadFile>>

\* disabled={!file || uploading || loadingSheets} of the upload button (the
\* button of the sheet dialog is disabled while uploading as well)
UploadButtonEnabledWhileUploading == file # Null

UploadButtonEnabled == file # Null /\ ~uploading

\* handleUpload up to `await fetch(.../upload/stream)`, started from one of
\* the page's upload buttons
handleUpload(sheet) ==
    /\ upc = "idle"
    /\ UploadButtonEnabled
    /\ uploading' = TRUE
    /\ status' = NullStatus
    /\ result' = NullResult
    /\ psheet' = sheet
    /\ pageReq' = PageRequest(storage.token, sheet)
    /\ pSubmits' = 1
    /\ ppc' = "awaitSubmit"
    /\ pSubResp' = NoResponse
    /\ pJobId' = Undef
    /\ pAttempts' = 0
    /\ pFetches' = 0
    /\ pStatusResp' = NoResponse
    /\ pollerSet' = NullStatus
    /\ pErrorSets' = 0
    /\ pEnd' = "none"
    /\ unauthorized' = 0
    /\ uploadFile' = file
    /\ UNCHANGED <<storage, uvars, xvars, file>>

\* the catch and finally blocks of handleUpload for an exception with message m
handleUploadCatch(m, end) ==
    /\ status' = Status("error", OrElseText(m, "Failed to upload file."))
    /\ pErrorSets' = pErrorSets + 1
    /\ uploading' = FALSE
    /\ ppc' = "finished"
    /\ pEnd' = end

\* error.detail || 'Upload failed' with
\* error = await response.json().catch(() => ({ detail: 'Upload failed' }))
PageSubmitErrorMessage(r) ==
    IF r.body = NotJson THEN "Upload failed"
    ELSE OrElseText(r.body.detail, "Upload failed")

\* the answer to the submission arrives: the rest of handleUpload up to the
\* first status fetch of pollUploadStatus
handleUploadResponse(r) ==
    /\ ppc = "awaitSubmit"
    /\ pSubResp' = r
    /\ unauthorized' = IF r.kind = "http" /\ ~r.ok /\ r.code = 401
                       THEN unauthorized + 1 ELSE unauthorized
    /\ IF r.kind = "netfail"
       THEN /\ handleUploadCatch("Failed to fetch", "rejected")
            /\ UNCHANGED <<result, pJobId, pAttempts, pFetches, pollerSet>>
       ELSE IF ~r.ok
       THEN /\ handleUploadCatch(PageSubmitErrorMessage(r), "rejected")
            /\ UNCHANGED <<result, pJobId, pAttempts, pFetches, pollerSet>>
       ELSE IF r.body = NotJson
       THEN /\ handleUploadCatch("Unexpected token in JSON", "rejected")
            /\ UNCHANGED <<result, pJobId, pAttempts, pFetches, pollerSet>>
       ELSE IF r.body.success # Undef
       THEN /\ status' = Status("success",
                    "Successfully imported " \o r.body.imported_count \o " campaigns"
                    \o (IF psheet # Undef THEN " from sheet \"" \o psheet \o "\"" ELSE "")
                    \o ".")
            /\ result' = r.body
            /\ uploading' = FALSE
            /\ ppc' = "finished"
            /\ pEnd' = "sync"
            /\ UNCHANGED <<pJobId, pAttempts, pFetches, pollerSet, pErrorSets>>
       ELSE IF r.body.status = "accepted" /\ r.body.job_id # Undef
       THEN /\ status' = Status("default", "File uploaded. Processing... (0%)")
            /\ pJobId' = r.body.job_id
            /\ pAttempts' = 1
            /\ pFetches' = pFetches + 1
            /\ ppc' = "awaitStatus"
            /\ UNCHANGED <<result, uploading, pollerSet, pErrorSets, pEnd>>
       ELSE /\ handleUploadCatch(OrElseText(r.body.message, "Upload failed"), "rejected")
            /\ UNCHANGED <<result, pJobId, pAttempts, pFetches, pollerSet>>
    /\ UNCHANGED <<storage, uvars, xvars, file, psheet, pageReq, pSubmits, pStatusResp,
                   uploadFile>>

\* setTimeout(checkStatus, 1000) fires: attempts++ and the next status fetch
checkStatus ==
    /\ ppc = "sleep"
    /\ pAttempts' = pAttempts + 1
    /\ pFetches' = pFetches + 1
    /\ ppc' = "awaitStatus"
    /\ UNCHANGED <<storage, unauthorized, uvars, xvars, file, uploading, status, result,
                   psheet, pageReq, pSubmits, pSubResp, pJobId, pStatusResp,
                   pollerSet, pErrorSets, pEnd, uploadFile>>

\* the poller rejects with message m after setting the error status s; the
\* rejection resumes handleUpload in its catch block
pollRejected(s, m, end) ==
    /\ pollerSet' = s
    /\ status' = Status("error", OrElseText(m, "Failed to upload file."))
    /\ pErrorSets' = pErrorSets + 2
    /\ uploading' = FALSE
    /\ ppc' = "finished"
    /\ pEnd' = end
    /\ UNCHANGED result

\* if (attempts >= maxAttempts) in checkStatus
PollTimedOutLate(a) == a > pageMaxAttempts

PollTimedOut(a) == a >= pageMaxAttempts

\* the answer to a status fetch arrives: the rest of checkStatus and, when
\* the poller settles, the rest of handleUpload
checkStatusResponse(r) ==
    /\ ppc = "awaitStatus"
    /\ pStatusResp' = r
    /\ IF r.kind = "netfail"
       THEN pollRejected(Status("error", "Lost connection to server while polling status."),
                         "Failed to fetch", "pollError")
       ELSE IF ~r.ok
       THEN pollRejected(Status("error", "Lost connection to server while polling status."),
                         "Failed to check status", "pollError")
       ELSE IF r.body = NotJson
       THEN pollRejected(Status("error", "Lost connection to server while polling status."),
                         "Unexpected token in JSON", "pollError")
       ELSE IF r.body.status = "completed"
       THEN /\ status' = Status("success", OrElseText(r.body.message, "Processing complete!"))
            /\ pollerSet' = status'
            /\ result' = PageResult("true",
                                    IF r.body.row_count \in {Undef, "0"} THEN "0"
                                    ELSE r.body.row_count,
                                    r.body.message, r.body.summary, r.body.schema,
                                    r.body.preview)
            /\ uploading' = FALSE
            /\ ppc' = "finished"
            /\ pEnd' = "completed"
            /\ UNCHANGED pErrorSets
       ELSE IF r.body.status = "failed"
       THEN pollRejected(Status("error", OrElseText(r.body.error, "Processing failed")),
                         ErrorMessage(r.body.error), "failed")
       ELSE IF PollTimedOut(pAttempts)
       THEN /\ status' = Status("warning",
                    "Processing is taking longer than expected. Please check back later.")
            /\ pollerSet' = status'
            /\ uploading' = FALSE
            /\ ppc' = "finished"
            /\ pEnd' = "timeout"
            /\ UNCHANGED <<result, pErrorSets>>
       ELSE /\ status' = Status("default",
                    "Processing... " \o ToString(RoundPercent(r.body.progress)) \o "%")
            /\ pollerSet' = status'
            /\ ppc' = "sleep"
            /\ UNCHANGED <<result, uploading, pErrorSets, pEnd>>
    /\ UNCHANGED <<storage, unauthorized, uvars, xvars, file, psheet, pageReq, pSubmits,
                   pSubResp, pJobId, pAttempts, pFetches, uploadFile>>

\* the page without its two localStorage entries, which stay absent
PageNext ==
    \/ \E f \in PageFiles : handleFileChange(f) /\ UNCHANGED svars
    \/ \E sheet \in SheetNames : handleUpload(sheet) /\ UNCHANGED svars
    \/ \E r \in SubmitResponses : handleUploadResponse(r) /\ UNCHANGED svars
    \/ checkStatus /\ UNCHANGED svars
    \/ \E r \in StatusResponses : checkStatusResponse(r) /\ UNCHANGED svars

\* ------------------------------------------ the upload page: persistence

\* `result && result.summary`: the page shows the success view in place of
\* the upload form (file input and upload button)
SuccessView ==
    /\ result # NullResult
    /\ "summary" \in DOMAIN result
    /\ result.summary # Undef

\* the effect on [result, status], run after every render that changed one
\* of them: it writes an entry when the value is set and does nothing else
useEffectPersist ==
    /\ savedResult' = IF result' # NullResult THEN Stored(result') ELSE savedResult
    /\ savedStatus' = IF status' # NullStatus THEN Stored(status') ELSE savedStatus

\* onClick of the 'New Upload' button of the success view
newUpload ==
    /\ upc = "idle"
    /\ cpc = "idle"
    /\ SuccessView
    /\ file' = Null
    /\ result' = NullResult
    /\ status' = NullStatus
    /\ savedResult' = NoSavedResult
    /\ savedStatus' = NoSavedStatus
    /\ UNCHANGED <<storage, unauthorized, uvars, xvars, ppc, uploading, psheet, pageReq,
                   pSubmits, pSubResp, pJobId, pAttempts, pFetches, pStatusResp,
                   pollerSet, pErrorSets, pEnd, uploadFile>>

\* the page is loaded while no upload is running: the initial values of
\* useState, then the effect that restores result and status from the
\* entries `present`
Mounted(present) ==
    /\ upc = "idle"
    /\ cpc = "idle"
    /\ ppc \in {"idle", "finished"}
    /\ file' = Null
    /\ uploading' = FALSE
    /\ result' = IF present /\ savedResult.present THEN savedResult.json ELSE NullResult
    /\ status' = IF present /\ savedStatus.present THEN savedStatus.json ELSE NullStatus
    /\ ppc' = "idle"
    /\ psheet' = Undef
    /\ pageReq' = NoRequest
    /\ pSubmits' = 0
    /\ pSubResp' = NoResponse
    /\ pJobId' = Undef
    /\ pAttempts' = 0
    /\ pFetches' = 0
    /\ pStatusResp' = NoResponse
    /\ pollerSet' = NullStatus
    /\ pErrorSets' = 0
    /\ pEnd' = "none"
    /\ uploadFile' = Null
    /\ UNCHANGED <<storage, unauthorized, uvars, xvars>>

\* the user reloads the page
mount == Mounted(TRUE) /\ UNCHANGED svars

\* handleNuclearReset once the user has confirmed and the reset request is
\* answered: on a 2xx answer the entries are removed and the page reloads
handleNuclearReset(ok) ==
    IF ok
    THEN /\ Mounted(FALSE)
         /\ savedResult' = NoSavedResult
         /\ savedStatus' = NoSavedStatus
    ELSE /\ upc = "idle"
         /\ cpc = "idle"
         /\ ppc \in {"idle", "finished"}
         /\ UNCHANGED vars

\* the page with its two entries, two files to choose from and a few
\* answers of the server
SelectableFiles == {"campaigns.csv", "leads.csv"}

PageSubmitAnswers ==
    {NetFail,
     [kind |-> "http", ok |-> FALSE, code |-> 401, statusText |-> "",
      body |-> NotJson],
     [kind |-> "http", ok |-> TRUE, code |-> 200, statusText |-> "OK",
      body |-> SubmitBody(Undef, Undef, "true", "m1", Undef)],
     [kind |-> "http", ok |-> TRUE, code |-> 200, statusText |-> "OK",
      body |-> SubmitBody("accepted", "j1", Undef, "m1", "fh")]}

PageStatusAnswers ==
    {NetFail} \cup
    [kind : {"http"}, ok : {TRUE}, code : {200}, statusText : {"OK"},
     body : {StatusBody("running", 455, "m1", Undef, Undef, FALSE),
             StatusBody("completed", 1000, "m1", Undef, "42", TRUE),
             StatusBody("failed", 455, "m1", "e1", Undef, FALSE)}]

NextPage ==
    \/ \E f \in SelectableFiles : ~SuccessView /\ handleFileChange(f) /\ useEffectPersist
    \/ ~SuccessView /\ handleUpload(Undef) /\ useEffectPersist
    \/ \E r \in PageSubmitAnswers : handleUploadResponse(r) /\ useEffectPersist
    \/ checkStatus /\ useEffectPersist
    \/ \E r \in PageStatusAnswers : checkStatusResponse(r) /\ useEffectPersist
    \/ newUpload
    \/ mount
    \/ \E ok \in BOOLEAN : handleNuclearReset(ok)

SpecPage == Init /\ [][NextPage]_vars

\* --------------------------------------------------- api.uploadCampaigns

\* api.uploadCampaigns up to `await fetch(.../campaigns/upload)`
uploadCampaigns ==
    /\ cpc = "idle"
    /\ upc = "idle"
    /\ ppc = "idle"
    /\ file = Null
    /\ hpc = "idle"
    /\ campReq' = [auth |-> IF storage.token # Null THEN "Bearer " \o storage.token
                            ELSE Undef,
                   csrf |-> TRUE,
                   sheet_name |-> Undef]
    /\ cpc' = "awaitUpload"
    /\ UNCHANGED <<storage, unauthorized, uvars, pvars, campOutcome, hvars, bvars, ovars>>

\* the answer arrives: the 401 signal, the thrown Error or the returned body
uploadCampaignsResponse(r) ==
    /\ cpc = "awaitUpload"
    /\ cpc' = "done"
    /\ unauthorized' = IF r.kind = "http" /\ ~r.ok /\ r.code = 401
                       THEN unauthorized + 1 ELSE unauthorized
    /\ campOutcome' =
          IF r.kind = "netfail" THEN [kind |-> "thrown", value |-> "Failed to fetch"]
          ELSE IF ~r.ok
          THEN [kind |-> "thrown",
                value |-> IF r.body = NotJson THEN "Upload failed"
                          ELSE OrElse(r.body.detail, "Upload failed")]
          ELSE IF r.body = NotJson
          THEN [kind |-> "thrown", value |-> "Unexpected token in JSON"]
          ELSE [kind |-> "returned", value |-> r.body]
    /\ UNCHANGED <<storage, uvars, pvars, campReq, hvars, bvars, ovars>>

CampaignsNext ==
    \/ uploadCampaigns
    \/ \E r \in SubmitResponses : uploadCampaignsResponse(r)

\* ------------------------------------------------------------ the Hasher

\* crypto.subtle.digest('SHA-256', buffer), shortened to a digest of two
\* bytes: a running value over the bytes in order, and the length
RECURSIVE DigestFold(_, _)
DigestFold(h, bytes) ==
    IF bytes = <<>> THEN h
    ELSE DigestFold((h * 31 + Head(bytes) + 1) % 256, Tail(bytes))

Sha256(bytes) == <<DigestFold(7, bytes), (Len(bytes) * 16 + 5) % 256>>

\* b.toString(16).padStart(2, '0')
HexDigit(d) == SubSeq("0123456789abcdef", d + 1, d + 1)
ToString16(b) == IF b < 16 THEN HexDigit(b) ELSE HexDigit(b \div 16) \o HexDigit(b % 16)
PadStart2(str) == IF Len(str) < 2 THEN "0" \o str ELSE str

\* hashArray.map(b => b.toString(16).padStart(2, '0')).join('')
RECURSIVE HexJoin(_)
HexJoin(hashArray) ==
    IF hashArray = <<>> THEN ""
    ELSE PadStart2(ToString16(Head(hashArray))) \o HexJoin(Tail(hashArray))

\* computeFileHash on a file whose arrayBuffer() holds the given bytes
computeFileHash(bytes) == HexJoin(Sha256(bytes))

\* chunks.reduce((acc, chunk) => acc + chunk.length, 0)
RECURSIVE TotalLength(_)
TotalLength(cs) == IF cs = <<>> THEN 0 ELSE Len(Head(cs)) + TotalLength(Tail(cs))

\* combined.set(chunk, offset)
SetAt(combined, chunk, offset) ==
    [i \in 1..Len(combined) |->
        IF i - offset \in 1..Len(chunk) THEN chunk[i - offset] ELSE combined[i]]

\* offset += chunk.length
NextOffsetStuck(offset, chunk) == offset

NextOffset(offset, chunk) == offset + Len(chunk)

\* for (const chunk of chunks) { combined.set(chunk, offset); offset += chunk.length }
RECURSIVE CombineFrom(_, _, _)
CombineFrom(combined, cs, offset) ==
    IF cs = <<>> THEN combined
    ELSE CombineFrom(SetAt(combined, Head(cs), offset), Tail(cs),
                     NextOffset(offset, Head(cs)))

\* new Uint8Array(total), filled by the loop
Combined(cs) == CombineFrom([i \in 1..TotalLength(cs) |-> 0], cs, 0)

\* the ways a stream may cut the bytes into at most MaxChunks chunks, empty
\* chunks included
ChunksAt(bytes, cuts) ==
    [i \in 1..(Len(cuts) + 1) |->
        SubSeq(bytes,
               (IF i = 1 THEN 0 ELSE cuts[i - 1]) + 1,
               IF i = Len(cuts) + 1 THEN Len(bytes) ELSE cuts[i])]

Streams(bytes) ==
    (IF bytes = <<>> THEN {<<>>} ELSE {})
    \cup {ChunksAt(bytes, cuts) :
            cuts \in {c \in UNION {[1..k -> 0..Len(bytes)] : k \in 0..(MaxChunks - 1)} :
                         \A i \in 1..(Len(c) - 1) : c[i] <= c[i + 1]}}

Max(a, b) == IF a > b THEN a ELSE b

\* isDuplicate of checkDuplicate
DuplicateAnswerLookup(hash, known) == hash \in known

DuplicateAnswer(hash, known) == FALSE

\* a call of one of the exported functions, up to its first await.
\* checkDuplicate chooses the hash function by the size of the file.
callHash(fn, f, cs, known) ==
    /\ hpc = "idle"
    /\ upc = "idle"
    /\ ppc = "idle"
    /\ file = Null
    /\ cpc = "idle"
    /\ hcall' = fn
    /\ hfile' = f
    /\ uploaded' = known
    /\ hstrategy' = IF fn = "checkDuplicate"
                    THEN (IF f.size > LARGE_FILE_THRESHOLD THEN "streaming" ELSE "memory")
                    ELSE IF fn = "computeFileHashStreaming" THEN "streaming"
                    ELSE "memory"
    /\ hstream' = IF hstrategy' = "streaming" THEN cs ELSE <<>>
    /\ hpc' = IF hstrategy' = "streaming" THEN "read" ELSE "arrayBuffer"
    /\ UNCHANGED <<storage, unauthorized, uvars, pvars, cvars, bvars, ovars, chunks, held,
                   digestInput, hreturn>>

\* computeFileHash: `await file.arrayBuffer()` settles
arrayBuffer ==
    /\ hpc = "arrayBuffer"
    /\ IF hfile.readable
       THEN /\ digestInput' = hfile.bytes
            /\ held' = Max(held, Len(hfile.bytes))
            /\ hpc' = "digest"
            /\ UNCHANGED hreturn
       ELSE /\ hreturn' = [kind |-> "thrown", value |-> "NotReadableError"]
            /\ hpc' = "thrown"
            /\ UNCHANGED <<digestInput, held>>
    /\ UNCHANGED <<storage, unauthorized, uvars, pvars, cvars, bvars, ovars, hcall, hfile,
                   hstream, uploaded, hstrategy, chunks>>

\* computeFileHashStreaming: `await reader.read()` settles: one more chunk, or
\* done, and then the chunks are combined and handed to the digest
readerRead ==
    /\ hpc = "read"
    /\ IF ~hfile.readable
       THEN /\ hreturn' = [kind |-> "thrown", value |-> "NotReadableError"]
            /\ hpc' = "thrown"
            /\ UNCHANGED <<chunks, held, digestInput>>
       ELSE IF Len(chunks) < Len(hstream)
       THEN /\ chunks' = Append(chunks, hstream[Len(chunks) + 1])
            /\ held' = Max(held, TotalLength(chunks'))
            /\ UNCHANGED <<hpc, digestInput, hreturn>>
       ELSE /\ digestInput' = Combined(chunks)
            /\ held' = Max(held, TotalLength(chunks) + Len(digestInput'))
            /\ hpc' = "digest"
            /\ UNCHANGED <<chunks, hreturn>>
    /\ UNCHANGED <<storage, unauthorized, uvars, pvars, cvars, bvars, ovars, hcall, hfile,
                   hstream, uploaded, hstrategy>>

\* `await crypto.subtle.digest(...)` settles; the hexadecimal string is
\* returned, by checkDuplicate together with isDuplicate
digest ==
    /\ hpc = "digest"
    /\ LET hash == HexJoin(Sha256(digestInput))
       IN  hreturn' =
              IF hcall = "checkDuplicate"
              THEN [kind |-> "returned",
                    value |-> [isDuplicate |-> DuplicateAnswer(hash, uploaded),
                               hash |-> hash]]
              ELSE [kind |-> "returned", value |-> hash]
    /\ hpc' = "done"
    /\ UNCHANGED <<storage, unauthorized, uvars, pvars, cvars, bvars, ovars, hcall, hfile,
                   hstream, uploaded, hstrategy, chunks, held, digestInput>>

HashNext ==
    \/ /\ hpc = "idle"
       /\ \E fn \in HashFunctions, f \in HashFiles :
             \E cs \in Streams(f.bytes), known \in {{}, {computeFileHash(f.bytes)}} :
                callHash(fn, f, cs, known)
    \/ arrayBuffer
    \/ readerRead
    \/ digest

UploadNext ==
    \/ \E f \in Files, sheet \in SheetNames, obs \in Observers : uploadFileWithProgress(f, sheet, obs)
    \/ UHashDone
    \/ \E r \in SubmitResponses : USubmitRecv(r)
    \/ UTimer
    \/ \E r \in StatusResponses : UStatusRecv(r)

Next == UploadNext \/ PageNext \/ CampaignsNext

Spec == Init /\ [][Next]_vars

\* one invocation of uploadFileWithProgress in an environment where every
\* file read, every timer and every HTTP request eventually completes
LiveFiles == [size : {LARGE_FILE_THRESHOLD}, readable : BOOLEAN]

LiveSubmitResponses ==
    {NetFail,
     [kind |-> "http", ok |-> FALSE, code |-> 500, statusText |-> "",
      body |-> NotJson],
     [kind |-> "http", ok |-> TRUE, code |-> 200, statusText |-> "OK",
      body |-> SubmitBody("duplicate", Undef, Undef, "m1", "fh")],
     [kind |-> "http", ok |-> TRUE, code |-> 200, statusText |-> "OK",
      body |-> SubmitBody("accepted", "j1", Undef, "m1", "fh")]}

LiveStatusResponses ==
    {NetFail} \cup
    [kind : {"http"}, ok : {TRUE}, code : {200}, statusText : {"OK"},
     body : {StatusBody("running", 455, "m1", Undef, Undef, FALSE),
             StatusBody("completed", 1000, "m1", Undef, "42", TRUE),
             StatusBody("failed", 455, "m1", "e1", Undef, FALSE)}]

NextLive ==
    \/ \E f \in LiveFiles, obs \in Observers : uploadFileWithProgress(f, Undef, obs)
    \/ UHashDone
    \/ \E r \in LiveSubmitResponses : USubmitRecv(r)
    \/ UTimer
    \/ \E r \in LiveStatusResponses : UStatusRecv(r)

SpecLive ==
    /\ Init
    /\ [][NextLive]_vars
    /\ WF_vars(UHashDone)
    /\ WF_vars(\E r \in LiveSubmitResponses : USubmitRecv(r))
    /\ WF_vars(UTimer)
    /\ WF_vars(\E r \in LiveStatusResponses : UStatusRecv(r))

\* the Hasher on its own, next to the hashing step of uploadFileWithProgress
NextHash ==
    \/ HashNext
    \/ \E f \in Files, sheet \in SheetNames, obs \in Observers :
          uploadFileWithProgress(f, sheet, obs)
    \/ UHashDone

SpecHash == Init /\ [][NextHash]_vars

\* ------------------------------------------ two invocations in flight

\* the locals of the invocation that runs
Activation ==
    [upc |-> upc, ufile |-> ufile, usheet |-> usheet, observer |-> observer,
     ulog |-> ulog, uresult |-> uresult, uescaped |-> uescaped,
     fileHash |-> fileHash, hashStrategy |-> hashStrategy, submitReq |-> submitReq,
     submits |-> submits, subResp |-> subResp, jobId |-> jobId, attempts |-> attempts,
     statusFetches |-> statusFetches, lastFetchJob |-> lastFetchJob,
     statusResp |-> statusResp]

\* the locals an invocation finds when it resumes after its await: every
\* const and let of uploadFileWithProgress is declared inside the function
ResumedSharedAttempts(saved, running) ==
    [saved EXCEPT !.attempts = running.attempts]

Resumed(saved, running) == saved

\* the event loop runs the other invocation: the one that ran waits at its await
Switch ==
    /\ upc # "idle"
    /\ LET r == Resumed(other, Activation)
       IN  /\ upc' = r.upc
           /\ ufile' = r.ufile
           /\ usheet' = r.usheet
           /\ observer' = r.observer
           /\ ulog' = r.ulog
           /\ uresult' = r.uresult
           /\ uescaped' = r.uescaped
           /\ fileHash' = r.fileHash
           /\ hashStrategy' = r.hashStrategy
           /\ submitReq' = r.submitReq
           /\ submits' = r.submits
           /\ subResp' = r.subResp
           /\ jobId' = r.jobId
           /\ attempts' = r.attempts
           /\ statusFetches' = r.statusFetches
           /\ lastFetchJob' = r.lastFetchJob
           /\ statusResp' = r.statusResp
    /\ other' = Activation
    /\ current' = 3 - current
    /\ UNCHANGED <<storage, unauthorized, pvars, cvars, hvars, ovars>>

\* the server gives every submission a job id of its own
JobOf(k) == IF k = 1 THEN "j1" ELSE "j2"

PairFiles == {[size |-> LARGE_FILE_THRESHOLD, readable |-> TRUE]}

\* both invocations are given an observer that returns from every event
PairObservers == {"returning"}

PairSubmitResponses(k) ==
    {[kind |-> "http", ok |-> TRUE, code |-> 200, statusText |-> "OK",
      body |-> SubmitBody("accepted", JobOf(k), Undef, "m1", "fh")],
     [kind |-> "http", ok |-> FALSE, code |-> 500, statusText |-> "",
      body |-> [json |-> TRUE, detail |-> "d1", message |-> Undef]]}

PairStatusResponses ==
    [kind : {"http"}, ok : {TRUE}, code : {200}, statusText : {"OK"},
     body : {StatusBody("running", 455, "m1", Undef, Undef, FALSE),
             StatusBody("completed", 1000, "m1", Undef, "42", TRUE),
             StatusBody("failed", 455, "m1", "e1", Undef, FALSE)}]

NextPair ==
    \/ \E f \in PairFiles, obs \in PairObservers : uploadFileWithProgress(f, Undef, obs)
    \/ UHashDone
    \/ \E r \in PairSubmitResponses(current) : USubmitRecv(r)
    \/ UTimer
    \/ \E r \in PairStatusResponses : UStatusRecv(r)
    \/ Switch

SpecPair == Init /\ [][NextPair]_vars

\* ------------------------------------------------- the request helper

\* { ...a, ...b } of JavaScript: the entries of b replace those of a
Spread(a, b) ==
    [k \in DOMAIN a \cup DOMAIN b |-> IF k \in DOMAIN b THEN b[k] ELSE a[k]]

\* o?.k: undefined when the object has no such entry
Get(o, k) == IF k \in DOMAIN o THEN o[k] ELSE Undef

\* bodies a caller hands over: none, or an object
JsObject(text) == [type |-> "object", v |-> text]
JsString(text) == [type |-> "string", v |-> text]
RequestBodies == {JsUndefined, JsObject("a:1")}

\* JSON.stringify(body)
JsonStringify(x) == JsString("{" \o x.v \o "}")

\* `body ? JSON.stringify(body) : undefined`
SerializedBody(x) == IF x.type = "undefined" THEN JsUndefined ELSE JsonStringify(x)

\* the options a caller may hand over (ApiRequestOptions extends RequestInit)
CallerHeaders == {("X-Trace" :> "t1"), ("Authorization" :> "Basic b1")}
RequestOptions ==
    {<<>>, ("token" :> "opt")}
    \cup {("headers" :> h) : h \in CallerHeaders}
    \cup {("method" :> "PUT"), ("body" :> JsObject("b:2"))}

\* the entries of `api` that go through the helper: the method and the body
\* each of them hands to request()
EntryCalls ==
    {[entry |-> "api.request", method |-> OrElse(Get(o, "method"), "GET"),
      body |-> (IF "body" \in DOMAIN o THEN o["body"] ELSE JsUndefined), options |-> o] :
        o \in RequestOptions}
    \cup {[entry |-> e, method |-> "GET", body |-> JsUndefined, options |-> o] :
            e \in {"api.get"}, o \in RequestOptions}
    \cup {[entry |-> e, method |-> "DELETE", body |-> JsUndefined, options |-> o] :
            e \in {"api.delete"}, o \in RequestOptions}
    \cup {[entry |-> e.name, method |-> e.method, body |-> b, options |-> o] :
            e \in {[name |-> "api.post", method |-> "POST"],
                   [name |-> "api.put", method |-> "PUT"],
                   [name |-> "api.patch", method |-> "PATCH"]},
            b \in RequestBodies, o \in RequestOptions}

\* options?.token || localStorage.getItem('token')
RequestToken(options) ==
    IF Get(options, "token") # Undef THEN options["token"] ELSE storage.token

\* const headers = { 'Content-Type', 'X-CSRF-Token', ...options?.headers },
\* then headers['Authorization'] when there is a token
RequestHeaders(options) ==
    LET base == Spread(("Content-Type" :> "application/json")
                       @@ ("X-CSRF-Token" :> "v2-token-generation-pca"),
                       IF "headers" \in DOMAIN options THEN options["headers"] ELSE <<>>)
        token == RequestToken(options)
    IN  IF token # Null THEN Spread(base, ("Authorization" :> ("Bearer " \o token)))
        ELSE base

\* const config = { method, headers, body: ..., ...options }
RequestConfig(method, body, options) ==
    Spread(("method" :> method) @@ ("headers" :> RequestHeaders(options))
           @@ ("body" :> SerializedBody(body)),
           options)

\* errorBody.detail || errorBody.message || 'An error occurred'; a body that
\* is no JSON leaves the generic message
RequestErrorMessageDetailOnly(r) ==
    IF r.body = NotJson THEN "An error occurred"
    ELSE OrElse(r.body.detail, "An error occurred")

RequestErrorMessage(r) ==
    IF r.body = NotJson THEN "An error occurred"
    ELSE OrElse(r.body.detail, OrElse(r.body.message, "An error occurred"))

\* answers of fetch to the helper
RequestResponses ==
    {NetFail} \cup HttpErrors \cup
    [kind : {"http"}, ok : {TRUE}, code : {200, 204}, statusText : {"OK"},
     body : {NotJson, [json |-> TRUE, detail |-> Undef, message |-> "ok"]}]

\* an entry of `api` is called: request() up to `await fetch(...)`
request(call) ==
    /\ rpc = "idle"
    /\ upc = "idle"
    /\ ppc = "idle"
    /\ file = Null
    /\ cpc = "idle"
    /\ hpc = "idle"
    /\ reqArgs' = call
    /\ reqSent' = RequestConfig(call.method, call.body, call.options)
    /\ rpc' = "awaitFetch"
    /\ UNCHANGED <<storage, unauthorized, uvars, pvars, cvars, hvars, bvars, kvars,
                   reqResp, reqOutcome>>

\* the answer arrives: the 'unauthorized' event, the ApiError, the returned
\* body, or the plain Error of the outer catch block
requestResponse(r) ==
    /\ rpc = "awaitFetch"
    /\ rpc' = "done"
    /\ reqResp' = r
    /\ unauthorized' = IF r.kind = "http" /\ ~r.ok /\ r.code = 401
                       THEN unauthorized + 1 ELSE unauthorized
    /\ reqOutcome' =
          IF r.kind = "netfail"
          THEN [kind |-> "Error", status |-> 0,
                message |-> "Network/JSON Error: Failed to fetch"]
          ELSE IF ~r.ok
          THEN [kind |-> "ApiError", status |-> r.code, message |-> RequestErrorMessage(r)]
          ELSE IF r.code = 204
          THEN [kind |-> "returned", status |-> r.code, message |-> Undef]
          ELSE IF r.body = NotJson
          THEN [kind |-> "Error", status |-> 0,
                message |-> "Network/JSON Error: Unexpected token in JSON"]
          ELSE [kind |-> "returned", status |-> r.code, message |-> r.body.message]
    /\ UNCHANGED <<storage, uvars, pvars, cvars, hvars, bvars, kvars, reqArgs, reqSent>>

RequestNext ==
    \/ /\ rpc = "idle"
       /\ \E call \in EntryCalls : request(call)
    \/ \E r \in RequestResponses : requestResponse(r)

SpecRequest == Init /\ [][RequestNext]_vars

\* ------------------------------------------------------- ChatInterface

\* the number of questions the user sends
MaxSends == 3

\* texts of the input field, and String.prototype.trim on them
ChatInputs == {"", " ", "hi"}
Trim(s) == IF s = " " THEN "" ELSE s

\* what api.chatWithCampaign settles with: a response with or without an
\* answer, or a rejection
ChatAnswers == {[kind |-> "ok", answer |-> "a1"], [kind |-> "ok", answer |-> Undef],
               [kind |-> "rejected", answer |-> Undef]}

\* onChange of the input field, which is disabled while isLoading
onChange(text) ==
    /\ ~shown.isLoading
    /\ input' = text
    /\ UNCHANGED <<storage, unauthorized, uvars, pvars, cvars, hvars, bvars, rvars,
                   messages, isLoading, shown, chatPending>>

\* the component renders again: its handlers now close over the current
\* input and isLoading
render ==
    /\ shown # [input |-> input, isLoading |-> isLoading]
    /\ shown' = [input |-> input, isLoading |-> isLoading]
    /\ UNCHANGED <<storage, unauthorized, uvars, pvars, cvars, hvars, bvars, rvars,
                   messages, input, isLoading, chatPending>>

\* if (!input.trim() || isLoading) return; with the values of the render
GuardPasses == Trim(shown.input) # "" /\ ~shown.isLoading

\* handleSend up to `await api.chatWithCampaign(...)`
handleSend ==
    IF GuardPasses /\ Len(messages) < 2 * MaxSends
    THEN /\ messages' = Append(messages, Message("user", shown.input))
         /\ input' = ""
         /\ isLoading' = TRUE
         /\ chatPending' = chatPending + 1
         /\ UNCHANGED shown
    ELSE UNCHANGED kvars

\* onClick of the send button, disabled={isLoading || !input.trim()}
clickSend ==
    /\ ~(shown.isLoading \/ Trim(shown.input) = "")
    /\ handleSend
    /\ UNCHANGED <<storage, unauthorized, uvars, pvars, cvars, hvars, bvars, rvars>>

\* handleKeyDown on the input field
handleKeyDown(key, shiftKey) ==
    /\ ~shown.isLoading
    /\ IF key = "Enter" /\ ~shiftKey THEN handleSend ELSE UNCHANGED kvars
    /\ UNCHANGED <<storage, unauthorized, uvars, pvars, cvars, hvars, bvars, rvars>>

\* a chat request settles: the rest of a handleSend
chatResponse(r) ==
    /\ chatPending > 0
    /\ messages' = Append(messages,
            IF r.kind = "ok"
            THEN Message("assistant",
                         OrElse(r.answer, "I couldn't generate an answer. Please check the logs."))
            ELSE Message("assistant",
                         "Sorry, I encountered an error comparing your request. Please try again."))
    /\ isLoading' = FALSE
    /\ chatPending' = chatPending - 1
    /\ UNCHANGED <<storage, unauthorized, uvars, pvars, cvars, hvars, bvars, rvars,
                   input, shown>>

\* the events the user raises on the send button and on the input field
ChatEvents ==
    {[type |-> "click", key |-> "", shiftKey |-> FALSE]}
    \cup [type : {"keydown"}, key : {"Enter", "a"}, shiftKey : BOOLEAN]

dispatch(e) ==
    IF e.type = "click" THEN clickSend ELSE handleKeyDown(e.key, e.shiftKey)

ChatNext ==
    \/ \E text \in ChatInputs : onChange(text)
    \/ render
    \/ \E e \in ChatEvents : dispatch(e)
    \/ \E r \in ChatAnswers : chatResponse(r)

SpecChat == Init /\ [][ChatNext]_vars

\* ----------------------------------------------------------------- claims

\* the answer was a 2xx response with a JSON body
HasBody(r) == r.kind = "http" /\ r.ok /\ r.body # NotJson

\* the request failed: the fetch rejected or the response was not 2xx
RequestFailed(r) == r.kind = "netfail" \/ (r.kind = "http" /\ ~r.ok)

\* the field f of a JavaScript object: undefined when the object has none
Field(rec, f) == IF f \in DOMAIN rec THEN rec[f] ELSE Undef

\* the submission was answered with an accepted job
Accepted(r) == HasBody(r) /\ r.body.status = "accepted" /\ r.body.job_id # Undef

\* the invocation of uploadFileWithProgress has ended
UEnded == upc \in {"done", "thrown"}

\* C1: the phases of the events handed to onProgress go forward through
\* hashing -> uploading -> processing -> complete: an event of a later phase
\* is never followed by one of an earlier phase, and an error event is the
\* last one.
C1_PhaseOrder ==
    \A i, j \in 1..Len(ulog.phases) :
        i < j => PhaseRank(ulog.phases[i]) < PhaseRank(ulog.phases[j])

C1_Witness ==
    /\ upc = "done"
    /\ ulog.phases = <<"hashing", "uploading", "processing", "complete">>
    /\ ulog.count["processing"] > 2

\* C2 (as claimed): when every status answer is successful and non-terminal,
\* polling stops after 60 fetches with a non-error outcome: no error event,
\* no result of status 'error', nothing thrown.
C2_TimeoutIsNoError ==
    (UEnded /\ ~ulog.threw /\ Accepted(subResp) /\ attempts = maxAttempts)
        => /\ statusFetches = maxAttempts
           /\ ulog.count["error"] = 0
           /\ uresult.status # "error"
           /\ upc = "done"

\* C3: the page poller issues at most 120 status fetches; when every answer
\* is successful and non-terminal it issues exactly 120, schedules no further
\* one, sets a warning status and resolves, and handleUpload finishes without
\* an error status.
C3_PageTimeout ==
    /\ pFetches <= pageMaxAttempts
    /\ pAttempts = pFetches
    /\ (ppc = "sleep" => pFetches < pageMaxAttempts)
    /\ (pEnd = "timeout"
          => /\ pFetches = pageMaxAttempts
             /\ ppc = "finished"
             /\ ~uploading
             /\ pollerSet.type = "warning"
             /\ status \in {pollerSet, NullStatus}
             /\ pErrorSets = 0)
    /\ (ppc = "finished" /\ pFetches = pageMaxAttempts /\ HasBody(pStatusResp)
        /\ pStatusResp.body.status \notin {"completed", "failed"}
          => pEnd = "timeout")

C3_Witness ==
    pEnd = "timeout" /\ pFetches = pageMaxAttempts /\ status.type = "warning"

C5_UnauthorizedSignal ==
    /\ (upc = "done" /\ subResp.kind = "http" /\ subResp.code = 401)
          => (unauthorized = 1 /\ uresult.status = "error")
    /\ (ppc = "finished" /\ pSubResp.kind = "http" /\ pSubResp.code = 401)
          => (unauthorized = 1 /\ pErrorSets = 1)

\* C6 (as claimed): no exception leaves uploadFileWithProgress, whatever the
\* file, the server and the observer do; it returns one result of status
\* accepted, duplicate or error.
C6_NoEscape ==
    /\ upc # "thrown"
    /\ uescaped = NoThrow
    /\ (upc = "done" => uresult.status \in {"accepted", "duplicate", "error"})

C8_Classification ==
    /\ (HasBody(subResp) /\ subResp.body.status = "duplicate" /\ upc = "done" /\ ~ulog.threw)
          => uresult.status = "duplicate"
    /\ statusFetches > 0
          => (subResp.body.status = "accepted" /\ subResp.body.job_id # Undef)
    /\ pFetches > 0
          => (pSubResp.body.status = "accepted" /\ pSubResp.body.job_id # Undef)
    /\ pEnd = "sync" => pSubResp.body.success = "true"

\* C9 (as claimed): after a poll answered 'completed' the result of the
\* poller holds row count, summary, schema and preview of that answer
\* unchanged, in uploadFileWithProgress and in pollUploadStatus.
C9_TerminalRelay ==
    /\ (upc = "done" /\ Accepted(subResp) /\ uresult.status = "accepted")
          => /\ Field(uresult, "row_count") = statusResp.body.row_count
             /\ Field(uresult, "summary") = statusResp.body.summary
             /\ Field(uresult, "schema") = statusResp.body.schema
             /\ Field(uresult, "preview") = statusResp.body.preview
    /\ pEnd = "completed"
          => /\ (pStatusResp.body.row_count # Undef
                   => result.imported_count = pStatusResp.body.row_count)
             /\ result.summary = pStatusResp.body.summary
             /\ result.schema = pStatusResp.body.schema
             /\ result.preview = pStatusResp.body.preview

\* C10: a failed status request ends polling at once: the pipeline has
\* ended, with the error result unless the observer threw, and the page
\* poller has rejected and handleUpload has finished with an error status.
C10_PollFailureIsFatal ==
    /\ (RequestFailed(statusResp) \/ (statusResp.kind = "http" /\ statusResp.body = NotJson))
          => /\ UEnded
             /\ uresult.status \in {"none", "error"}
             /\ (~ulog.threw => upc = "done" /\ uresult.status = "error")
    /\ (RequestFailed(pStatusResp) \/ (pStatusResp.kind = "http" /\ pStatusResp.body = NotJson))
          => /\ ppc = "finished"
             /\ pEnd = "pollError"
             /\ ~uploading
             /\ pErrorSets > 0
             /\ status.type \in {"error", Null}

C10_Witness ==
    /\ upc = "done" /\ statusFetches > 1 /\ RequestFailed(statusResp)
    /\ uresult.status = "error"

C12_ProgressMonotone ==
    [][/\ ulog'.last.progress \in 0..100
       /\ (Accepted(subResp) /\ ulog'.last.phase = ulog.last.phase)
             => ulog'.last.progress >= ulog.last.progress]_vars

\* C13: every status poll answered with a JSON body hands the observer exactly
\* one processing event: its progress is the server's fraction scaled to
\* 0..100, its message the server's message, its job id the job of the upload.
\* (The submission itself accounts for one more processing event.)
C13_PollEvent ==
    (HasBody(statusResp) /\ observer = "present" /\ ~ulog.threw)
        => /\ ulog.processing =
                 Ev("processing", RoundPercent(statusResp.body.progress),
                    statusResp.body.message, jobId, Undef)
           /\ ulog.count["processing"] =
                 1 + (IF upc = "awaitStatus" THEN statusFetches - 1 ELSE statusFetches)

C13_Witness ==
    /\ HasBody(statusResp) /\ observer = "present" /\ ~ulog.threw
    /\ statusResp.body.status = "completed" /\ statusResp.body.progress = 455
    /\ statusFetches = 3
    /\ ulog.processing.progress = 46 /\ ulog.processing.jobId = "j1"
    /\ ulog.count["processing"] = 4

\* C14: an invocation submits at most once; after a network failure or a
\* non-2xx answer of the submission it has ended without any status fetch,
\* with an error result whose message is the detail of the server's JSON body
\* when that body has one.
C14_NoRetry ==
    /\ submits <= 1
    /\ RequestFailed(subResp)
          => /\ UEnded
             /\ statusFetches = 0
             /\ uresult.status \in {"none", "error"}
             /\ ~ulog.threw
                   => /\ upc = "done"
                      /\ uresult.status = "error"
                      /\ (/\ subResp.kind = "http"
                          /\ subResp.body # NotJson
                          /\ subResp.body.detail # Undef)
                            => uresult.message = subResp.body.detail

C14_Witness ==
    /\ upc = "done" /\ submits = 1 /\ statusFetches = 0
    /\ subResp.kind = "http" /\ ~subResp.ok /\ subResp.code = 500
    /\ subResp.body # NotJson /\ subResp.body.detail = "d1"
    /\ uresult = Result("error", Undef, Undef, "d1", Undef)

\* the application's stored token: the localStorage entry 'token'
HasStoredToken == storage.token # Null

\* C15: every upload submission carries X-CSRF-Token, and carries
\* Authorization exactly when the application has a stored token, whether it
\* is sent by uploadFileWithProgress, api.uploadCampaigns or handleUpload.
C15_SubmissionHeaders ==
    /\ submits > 0
          => submitReq.csrf /\ (submitReq.auth # Undef <=> HasStoredToken)
    /\ cpc # "idle"
          => campReq.csrf /\ (campReq.auth # Undef <=> HasStoredToken)
    /\ pSubmits > 0
          => pageReq.csrf /\ (pageReq.auth # Undef <=> HasStoredToken)

\* C16: a returned result carries the payload of its variant: accepted, the
\* job id of the submission and the fingerprint; duplicate, the fingerprint
\* and the prior upload; error, a message.
C16_ResultPayload ==
    /\ uresult.status = "accepted"
          => /\ uresult.jobId # Undef
             /\ uresult.jobId = subResp.body.job_id
             /\ uresult.fileHash # Undef
    /\ uresult.status = "duplicate"
          => /\ uresult.fileHash # Undef
             /\ uresult.originalUpload # Undef
    /\ uresult.status = "error" => uresult.message # Undef

\* the rule of the specification: streaming above 10 MiB, in memory otherwise
StrategyFor(size) == IF size > LARGE_FILE_THRESHOLD THEN "streaming" ELSE "memory"

\* the chunks of the stream that hold at least one byte
NonEmptyChunks == {i \in 1..Len(hstream) : hstream[i] # <<>>}

\* the hexadecimal string a finished call has returned
ReturnedHash == IF hcall = "checkDuplicate" THEN hreturn.value.hash ELSE hreturn.value

\* C17: the hash function is chosen by the size of the file alone, by
\* checkDuplicate and by uploadFileWithProgress alike: streaming above 10 MiB,
\* in memory at 10 MiB or below; and the streaming function never holds the
\* whole of a file that arrives in several chunks.
C17_StrategyBySize ==
    /\ hcall = "checkDuplicate" => hstrategy = StrategyFor(hfile.size)
    /\ hashStrategy # "none" => hashStrategy = StrategyFor(ufile.size)
    /\ (hstrategy = "streaming" /\ Cardinality(NonEmptyChunks) >= 2)
          => held < Len(hfile.bytes)

\* C18: whatever the bytes and however the stream cuts them into chunks, the
\* streaming function hands the digest the file's bytes in order and returns
\* the string computeFileHash returns for the same bytes.
C18_HashEquivalence ==
    (hstrategy = "streaming" /\ hpc = "done")
        => /\ digestInput = hfile.bytes
           /\ ReturnedHash = computeFileHash(hfile.bytes)

C18_Witness ==
    /\ hcall = "computeFileHashStreaming" /\ hpc = "done"
    /\ hfile.bytes = <<0, 171, 0>>
    /\ hstream = << <<0>>, <<>>, <<171, 0>> >>
    /\ hreturn.value = computeFileHash(<<0, 171, 0>>)

\* C19: checkDuplicate sends nothing, runs the hash function the size of the
\* file calls for, returns for every readable file, and returns isDuplicate
\* false with the fingerprint of the file whatever the server already holds.
C19_CheckDuplicateStub ==
    hcall = "checkDuplicate"
        => /\ submits = 0 /\ statusFetches = 0 /\ pSubmits = 0 /\ pFetches = 0
           /\ cpc = "idle"
           /\ hstrategy = StrategyFor(hfile.size)
           /\ hfile.readable => hpc # "thrown"
           /\ hpc = "done"
                 => hreturn = [kind |-> "returned",
                               value |-> [isDuplicate |-> FALSE,
                                          hash |-> computeFileHash(hfile.bytes)]]

C19_Witness ==
    /\ hcall = "checkDuplicate" /\ hpc = "done"
    /\ hfile.size > LARGE_FILE_THRESHOLD
    /\ Len(hfile.bytes) = MaxFileLen
    /\ uploaded = {hreturn.value.hash}
    /\ ~hreturn.value.isDuplicate

\* the status fetches of the invocation k with the locals v go to the job the
\* server gave to its own submission
OwnJob(v, k) ==
    /\ v.jobId \in {Undef, JobOf(k)}
    /\ v.lastFetchJob \in {Undef, JobOf(k)}
    /\ v.statusFetches > 0 => v.lastFetchJob = JobOf(k)

\* attempts counts the invocation's own polls: every fetch it has issued but
\* the one in flight or the one that ended it
OwnAttempts(v) ==
    /\ v.attempts \in {v.statusFetches - 1, v.statusFetches}
    /\ v.attempts >= 0
    /\ v.upc = "sleep" => v.attempts = v.statusFetches
    /\ v.upc = "awaitStatus" => v.attempts = v.statusFetches - 1

\* C20: two invocations in flight are independent: a step of the one that
\* runs leaves the locals of the one that waits as they are, an invocation
\* resumes with the locals it left (so its events and result are those of a
\* run alone), its status fetches go to its own job, and its attempts count
\* its own polls.
C20_Independence ==
    [][/\ current' = current => other' = other
       /\ current' # current => (other' = Activation /\ Activation' = other)
       /\ OwnJob(Activation', current') /\ OwnJob(other', 3 - current')
       /\ OwnAttempts(Activation') /\ OwnAttempts(other')]_vars

C20_Witness ==
    /\ current = 2
    /\ jobId = "j2" /\ lastFetchJob = "j2" /\ attempts = 1
    /\ upc = "done" /\ uresult.status = "accepted" /\ uresult.jobId = "j2"
    /\ other.jobId = "j1" /\ other.lastFetchJob = "j1" /\ other.attempts = 3
    /\ other.upc = "sleep"
    /\ other.ulog.count["processing"] = 4 /\ ulog.count["processing"] = 3

C22_ReadFailure ==
    (upc \notin {"idle", "hashing"} /\ ~ufile.readable)
        => /\ submits = 0 /\ submitReq = NoRequest
           /\ statusFetches = 0
           /\ UEnded
           /\ ulog.count["uploading"] = 0
           /\ ulog.count["processing"] = 0
           /\ ulog.count["complete"] = 0
           /\ ulog.count["hashing"] <= 1
           /\ fileHash = Undef
           /\ ~ulog.threw
                 => /\ upc = "done"
                    /\ uresult.status = "error"
                    /\ observer = "present"
                          => /\ ulog.phases = <<"hashing", "error">>
                             /\ ulog.count["error"] = 1
                             /\ ulog.last.error = uresult.message

C22_Witness ==
    /\ upc = "done" /\ ~ufile.readable /\ observer = "present" /\ ~ulog.threw
    /\ ufile.size > LARGE_FILE_THRESHOLD
    /\ uresult.status = "error" /\ ulog.last.phase = "error"
    /\ submits = 0

\* C23: when every file read, timer and HTTP request completes, an invocation
\* that was called comes to its end, and it never issues more than 60 status
\* fetches.
C23_Termination ==
    /\ [](statusFetches <= maxAttempts)
    /\ (upc # "idle") ~> UEnded

C23_Witness ==
    /\ upc = "done" /\ statusFetches = maxAttempts /\ attempts = maxAttempts
    /\ uresult.message = "Upload timed out"

\* C24: the request helper turns every non-2xx answer into an ApiError with
\* the HTTP status and the body's detail, else its message, else 'An error
\* occurred' (also for a body that is no JSON); it dispatches 'unauthorized'
\* once for a 401 and never otherwise; a network failure is rethrown as a
\* plain Error.
C24_RequestErrors ==
    rpc = "done"
        => /\ unauthorized = IF RequestFailed(reqResp) /\ reqResp.kind = "http"
                                /\ reqResp.code = 401
                             THEN 1 ELSE 0
           /\ (reqResp.kind = "http" /\ ~reqResp.ok)
                 => /\ reqOutcome.kind = "ApiError"
                    /\ reqOutcome.status = reqResp.code
                    /\ reqOutcome.message =
                          IF reqResp.body = NotJson THEN "An error occurred"
                          ELSE IF reqResp.body.detail # Undef THEN reqResp.body.detail
                          ELSE IF reqResp.body.message # Undef THEN reqResp.body.message
                          ELSE "An error occurred"
           /\ reqResp.kind = "netfail"
                 => reqOutcome.kind = "Error" /\ reqOutcome.status = 0
           /\ reqOutcome.kind = "ApiError" => RequestFailed(reqResp)

C24_Witness ==
    /\ rpc = "done" /\ reqResp.kind = "http" /\ reqResp.code = 401
    /\ reqResp.body # NotJson /\ reqResp.body.detail = Undef
    /\ reqResp.body.message = "em"
    /\ reqOutcome = [kind |-> "ApiError", status |-> 401, message |-> "em"]
    /\ unauthorized = 1

\* the token the helper has at hand: the caller's, else the stored one
AvailableToken ==
    IF Get(reqArgs.options, "token") # Undef THEN reqArgs.options["token"]
    ELSE storage.token

\* C29: every request the helper sends has the method and the JSON
\* serialization of the body its entry was given, carries X-CSRF-Token and,
\* when a token is at hand, Authorization: Bearer, whatever the caller's
\* options hold.
C29_RequestConstruction ==
    rpc # "idle"
        => /\ reqSent["method"] = reqArgs.method
           /\ reqSent["body"] = (IF reqArgs.body = JsUndefined THEN JsUndefined
                                 ELSE JsString("{" \o reqArgs.body.v \o "}"))
           /\ "X-CSRF-Token" \in DOMAIN reqSent["headers"]
           /\ AvailableToken # Null
                 => /\ "Authorization" \in DOMAIN reqSent["headers"]
                    /\ reqSent["headers"]["Authorization"] = "Bearer " \o AvailableToken

\* C25: when the poller rejects, the status the page shows once handleUpload
\* has finished is the error status the poller set ("Lost connection to
\* server while polling status.", or the server's error or "Processing
\* failed").
C25_PollerStatusKept ==
    [][(ppc = "awaitStatus" /\ ppc' = "finished" /\ pEnd' \in {"pollError", "failed"})
          => status' = pollerSet']_vars

\* C26: `uploading` is true from the start of handleUpload until handleUpload
\* has ended and false after every exit path; while it is true no second
\* handleUpload starts from the page's upload buttons, so at most one poller
\* is active.
C26_UploadingFlag ==
    [][/\ uploading' <=> ppc' \in {"awaitSubmit", "awaitStatus", "sleep"}
       /\ (ppc' = "awaitSubmit" /\ ppc # "awaitSubmit") => ~uploading
       /\ ppc' = "finished" => pEnd' # "none"]_vars

C26_Witness ==
    /\ ppc = "finished" /\ pEnd = "failed" /\ ~uploading /\ pFetches = 2
    /\ UploadButtonEnabled

\* C27: once the user has selected another file while a poller is in flight,
\* no later poll response of the earlier job changes status or result: what
\* the page shows belongs to the file that is selected.
C27_SelectionWins ==
    [][(ppc = "awaitStatus" /\ ppc' # "awaitStatus" /\ file # uploadFile)
          => (status' = status /\ result' = result)]_vars

\* C28: the entries 'lastUploadResult' and 'lastUploadStatus' mirror result
\* and status: an entry is absent when its value is null and holds the value
\* otherwise, so a reload restores what was displayed.
C28_EntriesMirror ==
    /\ savedResult = (IF result = NullResult THEN NoSavedResult ELSE Stored(result))
    /\ savedStatus = (IF status = NullStatus THEN NoSavedStatus ELSE Stored(status))

\* C30: at most one chat request is in flight; the conversation starts with
\* the welcome message and then alternates user message, assistant message,
\* and once no request is pending every question has its answer and
\* isLoading is false.
C30_OneChatRequest ==
    /\ chatPending <= 1
    /\ \A i \in 2..Len(messages) :
          messages[i].role = (IF i % 2 = 0 THEN "user" ELSE "assistant")
    /\ chatPending = 0 => (~isLoading /\ Len(messages) % 2 = 1)

====
